---- MODULE Spec2Model ----
(***************************************************************************)
(* Model of the coveralls-api crate (src/lib.rs): the coverage encoders    *)
(* expand_lines / expand_branches, the construction of a Source from a     *)
(* file, the serialization of Source and CoverallsReport, and submission   *)
(* of a report to an endpoint.                                             *)
(***************************************************************************)
EXTENDS Integers, Sequences, FiniteSets, TLC

\* ------------------------------------------------------------------ bounds
MaxLineCount == 2
MaxBranches == 2
MaxContent == 2
MaxSources == 2

MaxKey == MaxLineCount + 1

\* ------------------------------------------------------- Rust value shapes
None == [tag |-> "None"]
Some(x) == [tag |-> "Some", v |-> x]
Ok(x) == [tag |-> "Ok", v |-> x]
Err(e) == [tag |-> "Err", e |-> e]
Panic(m) == [tag |-> "Panic", m |-> m]

\* serde data model values, as written by a JSON serializer
JNull == [t |-> "null"]
JInt(n) == [t |-> "int", n |-> n]
JStr(s) == [t |-> "str", s |-> s]
JArr(a) == [t |-> "arr", a |-> a]
JObj(f) == [t |-> "obj", o |-> f]
Field(k, v) == [k |-> k, v |-> v]

\* ------------------------------------------------------------ input sets
HitValues == {0, 1}
HitMaps == UNION {[K -> HitValues] : K \in SUBSET (0..MaxKey)}

FieldValues == {0, 1}
BranchData == [line_number : FieldValues, block_name : FieldValues,
               branch_number : FieldValues, hits : FieldValues]

BranchLists == UNION {[1..n -> BranchData] : n \in 0..MaxBranches}

LF == "\n"
CR == "\r"
Chars == {"a", LF, CR}
Contents == UNION {[1..n -> Chars] : n \in 0..MaxContent}

\* ---------------------------------------------------------------- encoder
expand_lines_off_by_one(lines, line_count) ==
    [p \in 1..line_count |->
        LET x == p - 1 IN
        IF x \in DOMAIN lines THEN Some(lines[x]) ELSE None]

\* (0..line_count).map(|x| lines.get(&(x+1))): position x (0-based) of the
\* result is index x+1 of the TLA+ sequence.
expand_lines(lines, line_count) ==
    [p \in 1..line_count |->
        LET x == p - 1 IN
        IF (x + 1) \in DOMAIN lines THEN Some(lines[x + 1]) ELSE None]

RECURSIVE expand_branches_swapped(_)
expand_branches_swapped(branches) ==
    IF branches = <<>> THEN <<>>
    ELSE LET x == Head(branches) IN
         <<x.line_number, x.branch_number, x.block_name, x.hits>>
             \o expand_branches_swapped(Tail(branches))

RECURSIVE expand_branches(_)
expand_branches(branches) ==
    IF branches = <<>> THEN <<>>
    ELSE LET x == Head(branches) IN
         <<x.line_number, x.block_name, x.branch_number, x.hits>>
             \o expand_branches(Tail(branches))

\* ------------------------------------------------------- str::lines, md5
\* str::split_inclusive('\n'): every segment keeps its terminator; a last
\* segment without terminator is yielded only when it is not empty.
RECURSIVE SplitInclusive(_, _)
SplitInclusive(s, cur) ==
    IF s = <<>> THEN (IF cur = <<>> THEN <<>> ELSE <<cur>>)
    ELSE IF Head(s) = LF
         THEN <<Append(cur, LF)>> \o SplitInclusive(Tail(s), <<>>)
         ELSE SplitInclusive(Tail(s), Append(cur, Head(s)))

\* the closure of str::lines: strip one "\n", and then one "\r" before it
StripLineEnding(seg) ==
    LET n == Len(seg) IN
    IF n > 0 /\ seg[n] = LF
    THEN IF n > 1 /\ seg[n - 1] = CR
         THEN SubSeq(seg, 1, n - 2)
         ELSE SubSeq(seg, 1, n - 1)
    ELSE seg

\* content.split('\n'): one more piece than there are "\n"
RECURSIVE SplitExclusive(_, _)
SplitExclusive(s, cur) ==
    IF s = <<>> THEN <<cur>>
    ELSE IF Head(s) = LF
         THEN <<cur>> \o SplitExclusive(Tail(s), <<>>)
         ELSE SplitExclusive(Tail(s), Append(cur, Head(s)))

\* content.lines()
str_lines(content) ==
    LET segs == SplitInclusive(content, <<>>) IN
    [i \in 1..Len(segs) |-> StripLineEnding(segs[i])]

count_lines_by_split(content) == Len(SplitExclusive(content, <<>>))

\* let line_count = content.lines().count();
count_lines(content) == Len(str_lines(content))

\* format!("{:x}", md5::compute(content)): the digest is a function of the
\* content alone; the hash itself is left uninterpreted.
md5_hex(content) == <<"md5", content>>

\* ------------------------------------------------------------ Source::new
\* A file on disk: missing (File::open fails), readerr (read_to_string
\* fails after `content` bytes were read), or ok with its full content.
MissingFile == [st |-> "missing", content |-> <<>>]
Files ==
    {MissingFile} \cup [st : {"ok"}, content : Contents]
                  \cup [st : {"readerr"}, content : {c \in Contents : Len(c) <= 1}]

RepoPaths == {[utf8 |-> TRUE, s |-> "src/a.rs"], [utf8 |-> FALSE, s |-> "src/\\xff.rs"]}

\* Path::to_str: None when the path is not valid UTF-8
to_str(p) == IF p.utf8 THEN Some(p.s) ELSE None

unwrap_or(o, d) == IF o.tag = "Some" THEN o.v ELSE d

read_file_keep_partial(file) ==
    IF file.st = "missing" THEN Err("open") ELSE Ok(file.content)

\* File::open(path)?; code.read_to_string(&mut content)?
read_file(file) ==
    IF file.st = "missing" THEN Err("open")
    ELSE IF file.st = "readerr" THEN Err("read")
    ELSE Ok(file.content)

Source_new(repo_path, file, hit_lines, branches, include_source) ==
    LET rd == read_file(file) IN
    IF rd.tag = "Err" THEN rd
    ELSE LET content == rd.v
             src == IF include_source THEN Some(content) ELSE None
             brch == IF branches.tag = "Some"
                     THEN Some(expand_branches(branches.v))
                     ELSE None
             line_count == count_lines(content)
         IN Ok([name |-> unwrap_or(to_str(repo_path), ""),
                source_digest |-> md5_hex(content),
                coverage |-> expand_lines(hit_lines, line_count),
                branches |-> brch,
                source |-> src])

\* ---------------------------------------------------------- serialization
\* A serializer either accepts every call or reports an error, which the
\* Serialize implementations pass on with `?`.
Serializers == {"ok", "fail"}

\* impl Serialize for Vec<usize>
usize_vec_serialize(v) == JArr([i \in 1..Len(v) |-> JInt(v[i])])

coverage_serialize_zero(c) == IF c.tag = "Some" THEN JInt(c.v) ELSE JInt(0)

\* impl Serialize for Option<usize>, an element of `coverage`:
\* serialize_some(v) / serialize_none
coverage_serialize(c) == IF c.tag = "Some" THEN JInt(c.v) ELSE JNull

\* impl Serialize for Vec<Option<usize>>
coverage_vec_serialize(v) ==
    JArr([i \in 1..Len(v) |-> coverage_serialize(v[i])])

Source_fields_no_skip(src) ==
    << Field("name", JStr(src.name)),
       Field("source_digest", JStr(src.source_digest)),
       Field("coverage", coverage_vec_serialize(src.coverage)),
       Field("branches", IF src.branches.tag = "Some"
                         THEN usize_vec_serialize(src.branches.v) ELSE JNull),
       Field("source", IF src.source.tag = "Some"
                       THEN JStr(src.source.v) ELSE JNull) >>

\* #[derive(Serialize)] struct Source, with skip_serializing_if on the two
\* optional fields
Source_fields(src) ==
    << Field("name", JStr(src.name)),
       Field("source_digest", JStr(src.source_digest)),
       Field("coverage", coverage_vec_serialize(src.coverage)) >>
    \o (IF src.branches.tag = "None" THEN <<>>
        ELSE <<Field("branches", usize_vec_serialize(src.branches.v))>>)
    \o (IF src.source.tag = "None" THEN <<>>
        ELSE <<Field("source", JStr(src.source.v))>>)

Source_value(src) == JObj(Source_fields(src))

Source_serialize(src, serializer) ==
    IF serializer = "fail" THEN Err("ser") ELSE Ok(Source_value(src))

\* ---------------------------------------------------------------- report
RepoToken(t) == [variant |-> "RepoToken", token |-> t]
ServiceToken(sv) == [variant |-> "ServiceToken", service |-> sv]

Identities ==
    { RepoToken("secret"),
      ServiceToken([service_name |-> "travis-ci", service_job_id |-> "42"]) }

CoverallsReport_new(id) == [id |-> id, source_files |-> <<>>]

add_source_front(self, source) ==
    [self EXCEPT !.source_files = <<source>> \o @]

\* self.source_files.push(source)
add_source(self, source) ==
    [self EXCEPT !.source_files = Append(@, source)]

Identity_fields_both(id) ==
    IF id.variant = "RepoToken"
    THEN <<Field("repo_token", JStr(id.token))>>
    ELSE << Field("repo_token", JStr("")),
            Field("service_name", JStr(id.service.service_name)),
            Field("service_job_id", JStr(id.service.service_job_id)) >>

\* match self.id { RepoToken(ref r) => ..., ServiceToken(ref serv) => ... }
Identity_fields(id) ==
    IF id.variant = "RepoToken"
    THEN <<Field("repo_token", JStr(id.token))>>
    ELSE << Field("service_name", JStr(id.service.service_name)),
            Field("service_job_id", JStr(id.service.service_job_id)) >>

\* impl Serialize for Vec<Source>
source_files_serialize(v) == JArr([i \in 1..Len(v) |-> Source_value(v[i])])

\* impl Serialize for CoverallsReport
CoverallsReport_serialize(self, serializer) ==
    IF serializer = "fail" THEN Err("ser")
    ELSE Ok(JObj(Identity_fields(self.id)
                 \o <<Field("source_files",
                            source_files_serialize(self.source_files))>>))

\* serde_json::to_string(&self)
to_string(self, serializer) == CoverallsReport_serialize(self, serializer)

\* ------------------------------------------------------------- submission
CoverallsUrl == "https://coveralls.io/api/v1/jobs"
Urls == {CoverallsUrl, "https://staging.example/api/v1/jobs"}

\* what client.post(url).body(..).send() can yield: a response of any
\* status, or a hyper error
TransportResults ==
    { Ok([status |-> 200]), Ok([status |-> 500]), Err("Io"), Err("Ssl") }

\* NativeTlsClient::new()
TlsResults == { Ok("ssl"), Err("tls-init") }

Envs == [serializer : Serializers, tls : TlsResults, transport : TransportResults]

send_to_endpoint_no_check(self, url, env) ==
    LET body == to_string(self, env.serializer)
        e1 == [ev |-> "to_string", res |-> body]
        e2 == [ev |-> "NativeTlsClient::new", res |-> env.tls]
        payload == IF body.tag = "Ok" THEN body.v ELSE JObj(<<>>)
    IN IF env.tls.tag = "Err"
       THEN [res |-> Panic("unwrap"), trace |-> <<e1, e2>>]
       ELSE [res |-> env.transport,
             trace |-> <<e1, e2, [ev |-> "send", url |-> url,
                                  body |-> payload, res |-> env.transport]>>]

\* The events of one call are kept in the order the code produces them.
send_to_endpoint(self, url, env) ==
    LET body == to_string(self, env.serializer)
        e1 == [ev |-> "to_string", res |-> body]
        e2 == [ev |-> "NativeTlsClient::new", res |-> env.tls]
    IN IF body.tag = "Err"
       THEN [res |-> Panic("Error"), trace |-> <<e1>>]
       ELSE IF env.tls.tag = "Err"
       THEN [res |-> Panic("unwrap"), trace |-> <<e1, e2>>]
       ELSE [res |-> env.transport,
             trace |-> <<e1, e2, [ev |-> "send", url |-> url,
                                  body |-> body.v, res |-> env.transport]>>]

send_to_coveralls(self, env) == send_to_endpoint(self, CoverallsUrl, env)

\* ------------------------------------------------------------------ state
VARIABLES
    enc,        \* the last call of an encoder function: arguments and result
    built,      \* the last call of Source::new: arguments and result
    src_json,   \* the result of serializing the Source in `built`
    report,     \* the CoverallsReport
    added,      \* the Sources passed to add_source, in call order
    ret,        \* the last operation on the report and what it returned
    trace       \* the events of the last submission, in order

vars == <<enc, built, src_json, report, added, ret, trace>>

NoCall == [tag |-> "NoCall"]
NoBuild == [ret |-> NoCall]

\* inputs of Source::new
BuildBranches ==
    { None, Some(<<>>),
      Some(<<[line_number |-> 3, block_name |-> 1, branch_number |-> 1, hits |-> 1],
             [line_number |-> 4, block_name |-> 1, branch_number |-> 2, hits |-> 0]>>) }

BuildInputs ==
    [repo_path : RepoPaths, file : Files, lines : HitMaps,
     branches : BuildBranches, include_source : BOOLEAN]

FixtureInputs ==
    { [repo_path |-> [utf8 |-> TRUE, s |-> "src/a.rs"],
       file |-> [st |-> "ok", content |-> <<"a", LF, "a">>],
       lines |-> (1 :> 0), branches |-> None, include_source |-> FALSE],
      [repo_path |-> [utf8 |-> TRUE, s |-> "src/b.rs"],
       file |-> [st |-> "ok", content |-> <<"a", CR, LF>>],
       lines |-> (1 :> 2 @@ 7 :> 1), branches |-> Some(<<>>),
       include_source |-> TRUE],
      [repo_path |-> [utf8 |-> TRUE, s |-> "src/c.rs"],
       file |-> [st |-> "ok", content |-> <<>>],
       lines |-> (1 :> 1),
       branches |-> Some(<<[line_number |-> 3, block_name |-> 1,
                            branch_number |-> 1, hits |-> 1]>>),
       include_source |-> FALSE],
      [repo_path |-> [utf8 |-> TRUE, s |-> "src/d.rs"],
       file |-> [st |-> "readerr", content |-> <<"a", LF>>],
       lines |-> (1 :> 1), branches |-> None, include_source |-> TRUE],
      [repo_path |-> [utf8 |-> TRUE, s |-> "src/e.rs"],
       file |-> MissingFile,
       lines |-> (1 :> 1), branches |-> None, include_source |-> FALSE] }

\* ---------------------------------------------------------------- actions
\* the encoder inputs a caller may hold before the call
EncoderInputs ==
    [op : {"expand_lines"}, lines : HitMaps, line_count : 0..MaxLineCount,
     out : {NoCall}]
    \cup [op : {"expand_branches"}, branches : BranchLists, out : {NoCall}]

ExpandLinesCall ==
    /\ enc.op = "expand_lines"
    /\ enc.out = NoCall
    /\ enc' = [enc EXCEPT !.out = Ok(expand_lines(enc.lines, enc.line_count))]
    /\ UNCHANGED <<built, src_json, report, added, ret, trace>>

ExpandBranchesCall ==
    /\ enc.op = "expand_branches"
    /\ enc.out = NoCall
    /\ enc' = [enc EXCEPT !.out = Ok(expand_branches(enc.branches))]
    /\ UNCHANGED <<built, src_json, report, added, ret, trace>>

Source_new_call(a) ==
    [args |-> a,
     ret |-> Source_new(a.repo_path, a.file, a.lines, a.branches,
                        a.include_source)]

\* Source::new on the arguments the caller holds
Build ==
    /\ built.ret = NoCall
    /\ "args" \in DOMAIN built
    /\ built' = Source_new_call(built.args)
    /\ UNCHANGED <<enc, src_json, report, added, ret, trace>>

\* Source::new on one of the files of the fixture
BuildFixture ==
    /\ \E a \in FixtureInputs : built' = Source_new_call(a)
    /\ ret' = [op |-> "Source::new"]
    /\ trace' = <<>>
    /\ UNCHANGED <<enc, src_json, report, added>>

SerializeSource ==
    /\ built.ret.tag = "Ok"
    /\ \E ser \in Serializers :
          src_json' = Source_serialize(built.ret.v, ser)
    /\ src_json = NoCall
    /\ UNCHANGED <<enc, built, report, added, ret, trace>>

\* report.add_source(source): the Source is moved into the report
AddSource ==
    /\ built.ret.tag = "Ok"
    /\ Len(report.source_files) < MaxSources
    /\ report' = add_source(report, built.ret.v)
    /\ added' = Append(added, built.ret.v)
    /\ built' = NoBuild
    /\ ret' = [op |-> "add_source"]
    /\ trace' = <<>>
    /\ UNCHANGED <<enc, src_json>>

SerializeReport ==
    /\ \E ser \in Serializers :
          ret' = [op |-> "serialize", res |-> CoverallsReport_serialize(report, ser)]
    /\ trace' = <<>>
    /\ UNCHANGED <<enc, built, src_json, report, added>>

SendToEndpoint ==
    /\ \E url \in Urls, env \in Envs :
          LET r == send_to_endpoint(report, url, env) IN
          /\ ret' = [op |-> "send_to_endpoint", url |-> url, res |-> r.res]
          /\ trace' = r.trace
    /\ UNCHANGED <<enc, built, src_json, report, added>>

SendToCoveralls ==
    /\ \E env \in Envs :
          LET r == send_to_coveralls(report, env) IN
          /\ ret' = [op |-> "send_to_coveralls", res |-> r.res]
          /\ trace' = r.trace
    /\ UNCHANGED <<enc, built, src_json, report, added>>

\* --------------------------------------------------------- specifications
InitCommon ==
    /\ src_json = NoCall
    /\ added = <<>>
    /\ ret = [op |-> "new"]
    /\ trace = <<>>

\* the report after CoverallsReport::new(id)
Init ==
    /\ InitCommon
    /\ enc = [op |-> "none", out |-> NoCall]
    /\ built = NoBuild
    /\ \E id \in Identities : report = CoverallsReport_new(id)

Next ==
    \/ BuildFixture
    \/ AddSource
    \/ SerializeReport
    \/ SendToEndpoint
    \/ SendToCoveralls

Spec == Init /\ [][Next]_vars

\* the encoders and Source::new on their own, over all bounded inputs
InitSource ==
    /\ InitCommon
    /\ report = CoverallsReport_new(RepoToken("secret"))
    /\ \/ enc \in EncoderInputs /\ built = NoBuild
       \/ /\ enc = [op |-> "none", out |-> NoCall]
          /\ built \in [args : BuildInputs, ret : {NoCall}]

NextSource ==
    \/ ExpandLinesCall
    \/ ExpandBranchesCall
    \/ Build
    \/ SerializeSource

SpecSource == InitSource /\ [][NextSource]_vars

\* ------------------------------------------------------------- properties
\* the value of the field `key` of a serialized object, as a sequence
\* (empty when the key is absent)
FieldValues_of(obj, key) ==
    LET hit == SelectSeq(obj.o, LAMBDA f : f.k = key) IN
    [i \in 1..Len(hit) |-> hit[i].v]

Keys_of(obj) == [i \in 1..Len(obj.o) |-> obj.o[i].k]

\* number of lines of a text: its "\n" terminators, plus one for a last
\* line that has no terminator
NumLines(c) ==
    Cardinality({i \in 1..Len(c) : c[i] = LF})
    + (IF c # <<>> /\ c[Len(c)] # LF THEN 1 ELSE 0)

\* C1: expand_lines(h, line_count) has exactly line_count slots; slot i
\* (0-based) is Some(h[i+1]) when i+1 is a key of h and None otherwise, so
\* keys outside 1..line_count (0 included) leave no mark and are no error.
C1_ExpandLines ==
    (enc.op = "expand_lines" /\ enc.out # NoCall) =>
        /\ enc.out.tag = "Ok"
        /\ DOMAIN enc.out.v = 1..enc.line_count
        /\ \A i \in 0..(enc.line_count - 1) :
              /\ ((i + 1) \in DOMAIN enc.lines) =>
                    enc.out.v[i + 1] = Some(enc.lines[i + 1])
              /\ ((i + 1) \notin DOMAIN enc.lines) => enc.out.v[i + 1] = None
        /\ \A h \in HitMaps :
              (\A k \in 1..enc.line_count :
                  /\ (k \in DOMAIN h) <=> (k \in DOMAIN enc.lines)
                  /\ (k \in DOMAIN h) => h[k] = enc.lines[k])
              => expand_lines(h, enc.line_count) = enc.out.v

C1_Witness ==
    /\ enc.op = "expand_lines"
    /\ enc.out.tag = "Ok"
    /\ enc.line_count = 2
    /\ DOMAIN enc.lines = {0, 1, 3}
    /\ enc.lines[1] = 0
    /\ enc.out.v = <<Some(0), None>>

\* C2: expand_branches(b) has 4 * len(b) slots and slots 4k..4k+3 hold
\* line_number, block_name, branch_number, hits of b[k] in that order; the
\* empty list gives the empty sequence.
C2_ExpandBranches ==
    (enc.op = "expand_branches" /\ enc.out # NoCall) =>
        LET b == enc.branches
            out == enc.out.v
        IN /\ Len(out) = 4 * Len(b)
           /\ \A k \in 0..(Len(b) - 1) :
                 /\ out[4 * k + 1] = b[k + 1].line_number
                 /\ out[4 * k + 2] = b[k + 1].block_name
                 /\ out[4 * k + 3] = b[k + 1].branch_number
                 /\ out[4 * k + 4] = b[k + 1].hits
           /\ (b = <<>>) => (out = <<>>)

C2_Witness ==
    /\ enc.op = "expand_branches"
    /\ enc.out.tag = "Ok"
    /\ Len(enc.branches) = 2
    /\ enc.out.v = <<0, 1, 0, 1, 1, 1, 0, 0>>

\* C3: the serialized Source has a `branches` key exactly when a branch
\* list was given (an empty list gives `branches: []`), a `source` key
\* exactly when include_source was set (holding the file content), and no
\* optional field is ever emitted as null.
C3_Omission ==
    (src_json.tag = "Ok") =>
        LET a == built.args
            obj == src_json.v
            br == FieldValues_of(obj, "branches")
            so == FieldValues_of(obj, "source")
        IN /\ (a.branches = None) <=> (br = <<>>)
           /\ (a.branches # None) =>
                 /\ Len(br) = 1
                 /\ br[1].t = "arr"
                 /\ Len(br[1].a) = 4 * Len(a.branches.v)
           /\ (a.branches = Some(<<>>)) => (br = <<JArr(<<>>)>>)
           /\ (a.include_source) <=> (so # <<>>)
           /\ (a.include_source) => (so = <<JStr(a.file.content)>>)
           /\ \A i \in 1..Len(obj.o) : obj.o[i].v # JNull

C3_Witness ==
    /\ src_json.tag = "Ok"
    /\ built.args.branches = None
    /\ built.args.include_source
    /\ built.args.file.content = <<"a", LF>>
    /\ Keys_of(src_json.v) = <<"name", "source_digest", "coverage", "source">>

\* C5: the coverage array of a built Source has one slot per line of the
\* file: the number of "\n" terminators, plus one when the last line has no
\* terminator; empty content gives an empty array.
C5_LineCount ==
    (built.ret.tag = "Ok") =>
        LET c == built.args.file.content IN
        /\ Len(built.ret.v.coverage) = NumLines(c)
        /\ (c = <<>>) => (built.ret.v.coverage = <<>>)

C5_Witness ==
    /\ built.ret.tag = "Ok"
    /\ built.args.file.content = <<LF, "a">>
    /\ Len(built.ret.v.coverage) = 2

\* C6: in a built Source and in its serialization, a coverage slot is
\* None/null exactly when the line has no entry in the hit map, and a line
\* whose entry is 0 gives Some(0) / the integer 0.
C6_NullVersusZero ==
    (built.ret.tag = "Ok") =>
        LET h == built.args.lines
            cov == built.ret.v.coverage
        IN /\ \A i \in 1..Len(cov) :
                 /\ (cov[i] = None) <=> (i \notin DOMAIN h)
                 /\ (i \in DOMAIN h) => (cov[i] = Some(h[i]))
           /\ (src_json.tag = "Ok") =>
                 LET js == FieldValues_of(src_json.v, "coverage") IN
                 /\ Len(js) = 1
                 /\ js[1].t = "arr"
                 /\ Len(js[1].a) = Len(cov)
                 /\ \A i \in 1..Len(cov) :
                       /\ (js[1].a[i] = JNull) <=> (i \notin DOMAIN h)
                       /\ (i \in DOMAIN h) => (js[1].a[i] = JInt(h[i]))

C6_Witness ==
    /\ built.ret.tag = "Ok"
    /\ src_json.tag = "Ok"
    /\ DOMAIN built.args.lines = {1}
    /\ built.args.lines[1] = 0
    /\ FieldValues_of(src_json.v, "coverage") = <<JArr(<<JInt(0), JNull>>)>>

\* C4: a serialized report (the result of serialize, and the body handed
\* to the transport) has either the key repo_token alone or the keys
\* service_name and service_job_id in that order, followed by source_files,
\* according to the identity of the report.
C4_IdentityExclusive ==
    LET expected == IF report.id.variant = "RepoToken"
                    THEN <<"repo_token", "source_files">>
                    ELSE <<"service_name", "service_job_id", "source_files">>
    IN /\ (ret.op = "serialize" /\ ret.res.tag = "Ok") =>
              Keys_of(ret.res.v) = expected
       /\ \A i \in 1..Len(trace) :
              (trace[i].ev = "send") => Keys_of(trace[i].body) = expected

C4_Witness ==
    /\ ret.op = "serialize"
    /\ ret.res.tag = "Ok"
    /\ report.id.variant = "ServiceToken"
    /\ Len(report.source_files) = 2
    /\ Keys_of(ret.res.v) = <<"service_name", "service_job_id", "source_files">>

C7_State ==
    (built.ret # NoCall) =>
        LET a == built.args IN
        /\ (a.file.st # "ok") =>
              /\ built.ret.tag = "Err"
              /\ "v" \notin DOMAIN built.ret
        /\ (a.file.st = "ok") =>
              /\ built.ret.tag = "Ok"
              /\ built.ret.v.source_digest = md5_hex(a.file.content)
              /\ Len(built.ret.v.coverage) = NumLines(a.file.content)
              /\ built.ret.v.source =
                    (IF a.include_source THEN Some(a.file.content) ELSE None)

C7_Step ==
    (built' # built /\ built'.ret.tag = "Err") =>
        (report' = report /\ added' = added)

\* C7: Source::new returns an io::Error and no Source when the file cannot
\* be opened or read to its end; when it succeeds, digest, coverage and
\* source text all come from the full content; a failed call leaves the
\* report as it was.
C7_AllOrNothing == [](C7_State) /\ [][C7_Step]_vars

C7_Witness ==
    /\ built.ret.tag = "Err"
    /\ built.args.file.st = "readerr"
    /\ built.args.file.content # <<>>
    /\ Len(report.source_files) = 1

\* C8: every failure the transport collaborator reports during a
\* submission (TLS set-up, connection, TLS handshake) is the value the
\* submission returns, and a response is returned as received.
C8_Forwarded ==
    (ret.op \in {"send_to_endpoint", "send_to_coveralls"}) =>
        \A i \in 1..Len(trace) :
            (trace[i].ev \in {"NativeTlsClient::new", "send"}
                /\ (trace[i].res.tag = "Err" \/ trace[i].ev = "send"))
            => ret.res = trace[i].res

C9_State ==
    /\ report.source_files = added
    /\ (ret.op = "serialize" /\ ret.res.tag = "Ok") =>
          FieldValues_of(ret.res.v, "source_files")
              = <<JArr([i \in 1..Len(added) |-> Source_value(added[i])])>>

C9_Step ==
    /\ report'.id = report.id
    /\ \/ report'.source_files = report.source_files
       \/ /\ built.ret.tag = "Ok"
          /\ report'.source_files = Append(report.source_files, built.ret.v)
    /\ (ret' # ret /\ ret'.op \in {"serialize", "send_to_endpoint",
                                   "send_to_coveralls"}) => report' = report

\* C9: the list of a new report is empty; the list always equals the
\* Sources added so far in call order; a step either leaves the list alone
\* or appends the one added Source at its end, and never changes the
\* identity; serialize and the submissions leave the report alone; the
\* serialized source_files array lists the entries in insertion order.
C9_AppendOnly ==
    /\ report.source_files = <<>>
    /\ [](C9_State)
    /\ [][C9_Step]_vars

C9_Witness ==
    /\ Len(added) = 2
    /\ added[1] # added[2]
    /\ ret.op = "serialize"
    /\ ret.res.tag = "Ok"

\* C10: a submission serializes the report first; a request handed to the
\* transport carries exactly that serialization of the report and the given
\* endpoint (the fixed URL for send_to_coveralls); when serialization fails
\* the call panics and hands no request to the transport.
C10_SerializeBeforeSend ==
    (ret.op \in {"send_to_endpoint", "send_to_coveralls"}) =>
        /\ Len(trace) >= 1
        /\ trace[1].ev = "to_string"
        /\ \A i \in 1..Len(trace) :
              (trace[i].ev = "send") =>
                  /\ i > 1
                  /\ trace[1].res.tag = "Ok"
                  /\ trace[i].body = trace[1].res.v
                  /\ trace[i].body.o =
                        Identity_fields(report.id)
                        \o <<Field("source_files",
                                   JArr([j \in 1..Len(report.source_files) |->
                                           Source_value(report.source_files[j])]))>>
                  /\ trace[i].url = (IF ret.op = "send_to_coveralls"
                                     THEN CoverallsUrl ELSE ret.url)
        /\ (trace[1].res.tag = "Err") =>
              /\ ret.res.tag = "Panic"
              /\ \A i \in 1..Len(trace) : trace[i].ev # "send"

C10_Witness ==
    /\ ret.op = "send_to_endpoint"
    /\ ret.url # CoverallsUrl
    /\ Len(report.source_files) = 2
    /\ Len(trace) = 3
    /\ trace[3].ev = "send"
    /\ trace[3].url = ret.url

====
